---- MODULE Spec2Model ----
(***************************************************************************)
(* Model of src/main.py: the training / evaluation script of the           *)
(* information-gain routing classifier.  The script is one sequential      *)
(* process; pc is its position.  Tensors are abstracted: a loss is a small *)
(* integer or NaN, a group of trainable weights is the number of           *)
(* optimizer.apply_gradients calls that named it, a Keras metric is the    *)
(* number of update_state calls since its last reset.                      *)
(***************************************************************************)
EXTENDS Integers, Sequences, FiniteSets

\* ---------------------------------------------------------------- bounds
MaxEpochs == 11
MaxTrainBatches == 2
MaxValBatches == 2
MaxTestBatches == 1

\* ------------------------------------------------------ program constants
ValidationPeriod == 10

\* A non-finite float (NaN or inf); every finite loss is a natural number.
NaN == -1

ImplementedModels == {"RESNET18", "RESNET18_SLIM", "LENET", "LENET_SLIM"}
\* Configured values tried: one with an arm of its own and one without.
ModelValues == {"LENET_SLIM", "VGG16"}

INFORMATION_GAIN_ROUTING == "INFORMATION_GAIN_ROUTING"
RANDOM_ROUTING == "RANDOM_ROUTING"
NO_ROUTING == "NO_ROUTING"
Routing == {NO_ROUTING, RANDOM_ROUTING, INFORMATION_GAIN_ROUTING}

\* Groups of trainable weights named by the script.
Backbone == {"F_0", "F_1", "F_2", "F_3"}
Head0 == {"H_0"}
Head1 == {"H_1"}
trainable_weights == Backbone \cup Head0 \cup Head1

\* Values the external collaborators may return.
ClassificationLosses == {1, NaN}
InformationGainLosses == {2}
InformationGainWeights == {0, 1}

VARIABLES
    config,               \* wandb.config
    dataset_train,        \* number of batches of each dataset
    dataset_validation,
    dataset_test,
    pc,                   \* position of the script
    error,                \* the exception that ended the run, or "none"
    model,                \* "undefined" until a model is bound
    optimizer,            \* TRUE once tf.optimizers.Adam has been built
    global_step,
    epoch,                \* loop variable of line 69; -1 before the loop
    train_iter,           \* batches taken from dataset_train this epoch
    eval_iter,            \* batches taken from the evaluation dataset
    current_routing,
    classification_loss,
    routing_0_loss,
    routing_1_loss,
    loss_value,
    ig_calls,             \* information_gain_loss_fn calls of this step
    apply_calls,          \* optimizer.apply_gradients calls of this step
    params,               \* weight group -> number of updates applied
    metrics,              \* metric -> update_state calls since reset
    result_log,           \* last payload built from the routing metrics
    val_passes,           \* validation passes begun
    test_passes           \* test passes begun

vars == <<config, dataset_train, dataset_validation, dataset_test, pc, error,
          model, optimizer, global_step, epoch, train_iter, eval_iter,
          current_routing, classification_loss, routing_0_loss,
          routing_1_loss, loss_value, ig_calls, apply_calls, params, metrics,
          result_log, val_passes, test_passes>>

dataVars == <<config, dataset_train, dataset_validation, dataset_test>>
lossVars == <<classification_loss, routing_0_loss, routing_1_loss,
              loss_value, ig_calls>>
passVars == <<val_passes, test_passes>>

\* ------------------------------------------------------------- arithmetic
Add(a, b) == IF a = NaN \/ b = NaN THEN NaN ELSE a + b
Mul(a, b) == IF a = NaN \/ b = NaN THEN NaN ELSE a * b

\* --------------------------------------------------------------- metrics
MetricNames == {"Route0", "Route1", "Accuracy", "TotalLoss", "Routing0Loss",
                "Routing1Loss", "ClassificationLoss"}

reset_metrics == [k \in MetricNames |-> 0]

NoLog == [kind |-> "none", tables |-> FALSE, route0 |-> 0, route1 |-> 0,
          accuracy |-> 0]

\* ------------------------------------------------------------------ Init
Init ==
    /\ config \in [MODEL : ModelValues,
                   USE_ROUTING : BOOLEAN,
                   DECOUPLE_ROUTING_GRADIENTS : BOOLEAN,
                   NUM_EPOCHS : 0..MaxEpochs]
    /\ dataset_train \in 0..MaxTrainBatches
    /\ dataset_validation \in 0..MaxValBatches
    /\ dataset_test \in 0..MaxTestBatches
    /\ pc = "select_model"
    /\ error = "none"
    /\ model = "undefined"
    /\ optimizer = FALSE
    /\ global_step = 0
    /\ epoch = -1
    /\ train_iter = 0
    /\ eval_iter = 0
    /\ current_routing = NO_ROUTING
    /\ classification_loss = 0
    /\ routing_0_loss = 0
    /\ routing_1_loss = 0
    /\ loss_value = 0
    /\ ig_calls = 0
    /\ apply_calls = <<>>
    /\ params = [w \in trainable_weights |-> 0]
    /\ metrics = reset_metrics
    /\ result_log = NoLog
    /\ val_passes = 0
    /\ test_passes = 0

\* ------------------------------------------------- external collaborators
\* utils.helpers.routing_method: the strategies it may return for a step.
routing_method(step, cfg) ==
    IF cfg.USE_ROUTING THEN Routing ELSE {NO_ROUTING}

\* Scheduler value of the information-gain loss weight (lines 80-89).
information_gain_loss_weights(cfg) ==
    IF cfg.USE_ROUTING THEN InformationGainWeights ELSE {0}

\* ------------------------------------------------------ pure parts of a step
\* Variant: the losses are evaluated whenever routing is enabled.
InformationGainActive_any_strategy(useRouting, routing) ==
    useRouting

\* Condition of lines 102-105.
InformationGainActive(useRouting, routing) ==
    useRouting /\ routing = INFORMATION_GAIN_ROUTING

\* Lines 108-122: one routing loss, given the weight and the value the
\* information-gain loss function would return.
RoutingLoss(useRouting, routing, weight, ig) ==
    IF InformationGainActive(useRouting, routing) THEN Mul(weight, ig) ELSE 0

\* Line 124.
TotalLoss(cls, r0, r1) == Add(Add(cls, r0), r1)

Call(loss, weights) == [loss |-> loss, weights |-> weights]

\* Variant: the update of the second routing head is left out.
GradientDispatch_without_head_1(useRouting, decouple, routing) ==
    IF useRouting /\ decouple
    THEN <<Call("classification_loss", Backbone)>> \o
         (IF useRouting /\ routing = INFORMATION_GAIN_ROUTING
          THEN <<Call("routing_0_loss", Head0)>>
          ELSE <<>>)
    ELSE <<Call("loss_value", trainable_weights)>>

\* Variant: the decoupled classification update names every weight.
GradientDispatch_leaking(useRouting, decouple, routing) ==
    IF useRouting /\ decouple
    THEN <<Call("classification_loss", trainable_weights)>> \o
         (IF useRouting /\ routing = INFORMATION_GAIN_ROUTING
          THEN <<Call("routing_0_loss", Head0), Call("routing_1_loss", Head1)>>
          ELSE <<>>)
    ELSE <<Call("loss_value", trainable_weights)>>

\* Lines 126-154: the optimizer.apply_gradients calls of one step, in order.
GradientDispatch(useRouting, decouple, routing) ==
    IF useRouting /\ decouple
    THEN <<Call("classification_loss", Backbone)>> \o
         (IF useRouting /\ routing = INFORMATION_GAIN_ROUTING
          THEN <<Call("routing_0_loss", Head0), Call("routing_1_loss", Head1)>>
          ELSE <<>>)
    ELSE <<Call("loss_value", trainable_weights)>>

\* Number of calls of a sequence that name weight group w.
RECURSIVE Updates(_, _)
Updates(calls, w) ==
    IF calls = <<>> THEN 0
    ELSE (IF w \in Head(calls).weights THEN 1 ELSE 0) + Updates(Tail(calls), w)

apply_gradients(p, calls) == [w \in DOMAIN p |-> p[w] + Updates(calls, w)]

\* Variant: the last epoch is validated only when it is a tenth one.
ValidationDue_periodic_only(e, numEpochs) ==
    (e + 1) % ValidationPeriod = 0

\* Line 208.
ValidationDue(e, numEpochs) ==
    (e + 1) % ValidationPeriod = 0 \/ (e + 1) = numEpochs

\* Lines 235-248 and 276-288: the payload built from the running metrics.
BuildResultLog(kind, useRouting, m) ==
    [kind |-> kind, tables |-> useRouting,
     route0 |-> IF useRouting THEN m["Route0"] ELSE 0,
     route1 |-> IF useRouting THEN m["Route1"] ELSE 0,
     accuracy |-> m["Accuracy"]]

Bump(m, names) == [k \in DOMAIN m |-> IF k \in names THEN m[k] + 1 ELSE m[k]]

\* --------------------------------------------------------------- start-up
\* Lines 25-34.  The else arm builds a NotImplementedError and drops it.
SelectModel ==
    /\ pc = "select_model"
    /\ model' = IF config.MODEL \in ImplementedModels THEN config.MODEL
                ELSE "undefined"
    /\ pc' = "build_optimizer"
    /\ UNCHANGED <<dataVars, error, optimizer, global_step, epoch, train_iter,
                   eval_iter, current_routing, lossVars, apply_calls, params,
                   metrics, result_log, passVars>>

\* Lines 36-40.
BuildOptimizer ==
    /\ pc = "build_optimizer"
    /\ optimizer' = TRUE
    /\ pc' = "compile"
    /\ UNCHANGED <<dataVars, error, model, global_step, epoch, train_iter,
                   eval_iter, current_routing, lossVars, apply_calls, params,
                   metrics, result_log, passVars>>

\* Lines 41-68.  model.compile reads the name model.
Compile ==
    /\ pc = "compile"
    /\ IF model = "undefined"
       THEN /\ pc' = "aborted"
            /\ error' = "NameError"
            /\ UNCHANGED <<metrics, global_step>>
       ELSE /\ pc' = "epoch_head"
            /\ metrics' = reset_metrics
            /\ global_step' = 0
            /\ UNCHANGED error
    /\ UNCHANGED <<dataVars, model, optimizer, epoch, train_iter, eval_iter,
                   current_routing, lossVars, apply_calls, params, result_log,
                   passVars>>

\* ----------------------------------------------------------------- epochs
\* Variant: the step counter restarts with every epoch.
BeginEpoch_resetting_step ==
    /\ pc = "epoch_head"
    /\ epoch + 1 < config.NUM_EPOCHS
    /\ epoch' = epoch + 1
    /\ metrics' = reset_metrics
    /\ train_iter' = 0
    /\ global_step' = 0
    /\ pc' = "train_head"
    /\ UNCHANGED <<dataVars, error, model, optimizer, eval_iter,
                   current_routing, lossVars, apply_calls, params, result_log,
                   passVars>>

\* Lines 69-73.
BeginEpoch ==
    /\ pc = "epoch_head"
    /\ epoch + 1 < config.NUM_EPOCHS
    /\ epoch' = epoch + 1
    /\ metrics' = reset_metrics
    /\ train_iter' = 0
    /\ pc' = "train_head"
    /\ UNCHANGED <<dataVars, error, model, optimizer, global_step, eval_iter,
                   current_routing, lossVars, apply_calls, params, result_log,
                   passVars>>

\* Lines 75-124: take the next batch, resolve the schedules and the routing
\* strategy, run the forward pass and compute the losses.
TrainForward ==
    /\ pc = "train_head"
    /\ train_iter < dataset_train
    /\ train_iter' = train_iter + 1
    /\ \E r \in routing_method(global_step, config),
          weight \in information_gain_loss_weights(config),
          cls \in ClassificationLosses,
          ig0 \in InformationGainLosses,
          ig1 \in InformationGainLosses :
            /\ current_routing' = r
            /\ classification_loss' = cls
            /\ routing_0_loss' = RoutingLoss(config.USE_ROUTING, r, weight, ig0)
            /\ routing_1_loss' = RoutingLoss(config.USE_ROUTING, r, weight, ig1)
            /\ loss_value' = TotalLoss(cls, routing_0_loss', routing_1_loss')
            /\ ig_calls' = IF InformationGainActive(config.USE_ROUTING, r)
                           THEN 2 ELSE 0
    /\ apply_calls' = <<>>
    /\ pc' = "dispatch"
    /\ UNCHANGED <<dataVars, error, model, optimizer, global_step, epoch,
                   eval_iter, params, metrics, result_log, passVars>>

\* Lines 126-156.
GradientStep ==
    /\ pc = "dispatch"
    /\ apply_calls' = GradientDispatch(config.USE_ROUTING,
                                       config.DECOUPLE_ROUTING_GRADIENTS,
                                       current_routing)
    /\ params' = apply_gradients(params, apply_calls')
    /\ pc' = "metrics"
    /\ UNCHANGED <<dataVars, error, model, optimizer, global_step, epoch,
                   train_iter, eval_iter, current_routing, lossVars, metrics,
                   result_log, passVars>>

\* Lines 157-172.
UpdateMetrics ==
    /\ pc = "metrics"
    /\ metrics' = Bump(metrics, {"Accuracy", "TotalLoss", "Routing0Loss",
                                 "Routing1Loss", "ClassificationLoss"})
    /\ global_step' = global_step + 1
    /\ pc' = "log"
    /\ UNCHANGED <<dataVars, error, model, optimizer, epoch, train_iter,
                   eval_iter, current_routing, lossVars, apply_calls, params,
                   result_log, passVars>>

\* Lines 174-205.  wandb.log is not wrapped in any handler.
LogTraining ==
    /\ pc = "log"
    /\ \E ok \in BOOLEAN :
          IF ok THEN pc' = "train_head" /\ UNCHANGED error
          ELSE pc' = "aborted" /\ error' = "WandbError"
    /\ UNCHANGED <<dataVars, model, optimizer, global_step, epoch, train_iter,
                   eval_iter, current_routing, lossVars, apply_calls, params,
                   metrics, result_log, passVars>>

\* ------------------------------------------------------------- validation
\* Lines 207-211, reached when the loop of line 75 is exhausted.
ValidationCheck ==
    /\ pc = "train_head"
    /\ train_iter >= dataset_train
    /\ IF ValidationDue(epoch, config.NUM_EPOCHS)
       THEN /\ metrics' = reset_metrics
            /\ current_routing' \in routing_method(global_step - 1, config)
            /\ eval_iter' = 0
            /\ val_passes' = val_passes + 1
            /\ pc' = "val_head"
       ELSE /\ pc' = "epoch_head"
            /\ UNCHANGED <<metrics, current_routing, eval_iter, val_passes>>
    /\ UNCHANGED <<dataVars, error, model, optimizer, global_step, epoch,
                   train_iter, lossVars, apply_calls, params, result_log,
                   test_passes>>

\* Variant: a validation batch is run as a training batch.
ValidationBatch_training ==
    /\ pc = "val_head"
    /\ eval_iter < dataset_validation
    /\ eval_iter' = eval_iter + 1
    /\ metrics' = Bump(metrics, {"Route0", "Route1", "Accuracy"})
    /\ apply_calls' = <<Call("loss_value", trainable_weights)>>
    /\ params' = apply_gradients(params, apply_calls')
    /\ pc' = "val_log"
    /\ UNCHANGED <<dataVars, error, model, optimizer, global_step, epoch,
                   train_iter, current_routing, lossVars, result_log,
                   passVars>>

\* Lines 212-233.
ValidationBatch ==
    /\ pc = "val_head"
    /\ eval_iter < dataset_validation
    /\ eval_iter' = eval_iter + 1
    /\ metrics' = Bump(metrics, {"Route0", "Route1", "Accuracy"})
    /\ pc' = "val_log"
    /\ UNCHANGED <<dataVars, error, model, optimizer, global_step, epoch,
                   train_iter, current_routing, lossVars, apply_calls, params,
                   result_log, passVars>>

\* Lines 235-248, inside the loop of line 212.
ValidationLog ==
    /\ pc = "val_log"
    /\ result_log' = BuildResultLog("Validation", config.USE_ROUTING, metrics)
    /\ \E ok \in BOOLEAN :
          IF ok THEN pc' = "val_head" /\ UNCHANGED error
          ELSE pc' = "aborted" /\ error' = "WandbError"
    /\ UNCHANGED <<dataVars, model, optimizer, global_step, epoch, train_iter,
                   eval_iter, current_routing, lossVars, apply_calls, params,
                   metrics, passVars>>

\* Line 212, loop exhausted.
EndValidation ==
    /\ pc = "val_head"
    /\ eval_iter >= dataset_validation
    /\ pc' = "epoch_head"
    /\ UNCHANGED <<dataVars, error, model, optimizer, global_step, epoch,
                   train_iter, eval_iter, current_routing, lossVars,
                   apply_calls, params, metrics, result_log, passVars>>

\* ------------------------------------------------------------------- test
\* Lines 250-252, reached when the loop of line 69 is exhausted.
BeginTest ==
    /\ pc = "epoch_head"
    /\ epoch + 1 >= config.NUM_EPOCHS
    /\ metrics' = reset_metrics
    /\ current_routing' \in routing_method(global_step - 1, config)
    /\ eval_iter' = 0
    /\ test_passes' = test_passes + 1
    /\ pc' = "test_head"
    /\ UNCHANGED <<dataVars, error, model, optimizer, global_step, epoch,
                   train_iter, lossVars, apply_calls, params, result_log,
                   val_passes>>

\* Lines 253-274.
TestBatch ==
    /\ pc = "test_head"
    /\ eval_iter < dataset_test
    /\ eval_iter' = eval_iter + 1
    /\ metrics' = Bump(metrics, {"Route0", "Route1", "Accuracy"})
    /\ pc' = "test_log"
    /\ UNCHANGED <<dataVars, error, model, optimizer, global_step, epoch,
                   train_iter, current_routing, lossVars, apply_calls, params,
                   result_log, passVars>>

\* Lines 276-289, inside the loop of line 253.
TestLog ==
    /\ pc = "test_log"
    /\ result_log' = BuildResultLog("Test", config.USE_ROUTING, metrics)
    /\ \E ok \in BOOLEAN :
          IF ok THEN pc' = "test_head" /\ UNCHANGED error
          ELSE pc' = "aborted" /\ error' = "WandbError"
    /\ UNCHANGED <<dataVars, model, optimizer, global_step, epoch, train_iter,
                   eval_iter, current_routing, lossVars, apply_calls, params,
                   metrics, passVars>>

\* Line 253, loop exhausted: the script ends.
EndTest ==
    /\ pc = "test_head"
    /\ eval_iter >= dataset_test
    /\ pc' = "done"
    /\ UNCHANGED <<dataVars, error, model, optimizer, global_step, epoch,
                   train_iter, eval_iter, current_routing, lossVars,
                   apply_calls, params, metrics, result_log, passVars>>

Next ==
    \/ SelectModel
    \/ BuildOptimizer
    \/ Compile
    \/ BeginEpoch
    \/ TrainForward
    \/ GradientStep
    \/ UpdateMetrics
    \/ LogTraining
    \/ ValidationCheck
    \/ ValidationBatch
    \/ ValidationLog
    \/ EndValidation
    \/ BeginTest
    \/ TestBatch
    \/ TestLog
    \/ EndTest

Spec == Init /\ [][Next]_vars

TypeOK ==
    /\ pc \in {"select_model", "build_optimizer", "compile", "epoch_head",
               "train_head", "dispatch", "metrics", "log", "val_head",
               "val_log", "test_head", "test_log", "done", "aborted"}
    /\ global_step \in Nat
    /\ epoch \in -1..MaxEpochs

\* =================================================================== claims
TrainStepDone == pc \in {"metrics", "log"}
LossesComputed == pc \in {"dispatch", "metrics", "log"}
EvalPcs == {"val_head", "val_log", "test_head", "test_log"}
Decoupled == config.USE_ROUTING /\ config.DECOUPLE_ROUTING_GRADIENTS
StrategyIsInformationGain ==
    config.USE_ROUTING /\ current_routing = "INFORMATION_GAIN_ROUTING"

\* Training batches taken from dataset_train since the start of the run.
BatchesTaken == IF epoch < 0 THEN 0 ELSE epoch * dataset_train + train_iter

\* Calls of the current step that name weight group w.
CallsNaming(w) ==
    Cardinality({k \in 1..Len(apply_calls) : w \in apply_calls[k].weights})

CounterStep ==
    \/ global_step' = global_step
    \/ (pc = "metrics" /\ global_step' = global_step + 1)

\* C1: global_step starts at 0, goes up by exactly one per training batch,
\* after that batch's gradient application and metric update, and is never
\* decremented or reset; after k training batches it is exactly k.
C1_StepCountsBatches ==
    /\ [](/\ pc = "select_model" => global_step = 0
          /\ pc \in {"dispatch", "metrics"} => global_step = BatchesTaken - 1
          /\ pc \notin {"dispatch", "metrics"} => global_step = BatchesTaken
          /\ pc = "log" => /\ Len(apply_calls) >= 1
                           /\ metrics["TotalLoss"] = train_iter)
    /\ [][CounterStep]_vars

C1_Witness ==
    /\ pc = "log"
    /\ epoch = 1
    /\ dataset_train = 2
    /\ global_step = 3

EvaluationStep ==
    pc \in EvalPcs => (/\ global_step' = global_step
                       /\ params' = params
                       /\ apply_calls' = apply_calls)

\* C2: during a validation pass and during the test pass global_step and
\* every trainable parameter keep their values and no gradient is applied.
C2_EvaluationFrame ==
    [][EvaluationStep]_vars

C2_Witness ==
    /\ pc = "test_log"
    /\ eval_iter = 1
    /\ val_passes >= 1
    /\ global_step >= 2
    /\ params["H_0"] >= 1

\* C3: a decoupled step under the information-gain strategy makes exactly
\* three apply calls, for the backbone, head 0 and head 1 in that order; a
\* step with DECOUPLE_ROUTING_GRADIENTS false makes exactly one combined call.
C3_ApplyCallCount ==
    TrainStepDone =>
      /\ (Decoupled /\ current_routing = "INFORMATION_GAIN_ROUTING") =>
            /\ Len(apply_calls) = 3
            /\ apply_calls[1].weights = {"F_0", "F_1", "F_2", "F_3"}
            /\ apply_calls[2].weights = {"H_0"}
            /\ apply_calls[3].weights = {"H_1"}
      /\ ~config.DECOUPLE_ROUTING_GRADIENTS =>
            /\ Len(apply_calls) = 1
            /\ apply_calls[1].loss = "loss_value"
            /\ apply_calls[1].weights =
                   {"F_0", "F_1", "F_2", "F_3", "H_0", "H_1"}

C3_Witness ==
    /\ pc = "metrics"
    /\ Decoupled
    /\ current_routing = "INFORMATION_GAIN_ROUTING"
    /\ Len(apply_calls) = 3

\* C4: in every step no weight group is named by two apply calls; the backbone
\* is updated once; decoupled, the classification loss goes to F_0..F_3 only
\* and each routing loss to its own head only; when the strategy is not
\* information gain the decoupled heads get no update and no error is raised.
C4_OneContributionPerWeight ==
    TrainStepDone =>
      /\ error = "none"
      /\ \A w \in {"F_0", "F_1", "F_2", "F_3"} : CallsNaming(w) = 1
      /\ \A w \in {"H_0", "H_1"} :
            CallsNaming(w) =
               IF Decoupled /\ ~StrategyIsInformationGain THEN 0 ELSE 1
      /\ Decoupled =>
            \A k \in 1..Len(apply_calls) :
               \/ /\ apply_calls[k].loss = "classification_loss"
                  /\ apply_calls[k].weights = {"F_0", "F_1", "F_2", "F_3"}
               \/ /\ apply_calls[k].loss = "routing_0_loss"
                  /\ apply_calls[k].weights = {"H_0"}
               \/ /\ apply_calls[k].loss = "routing_1_loss"
                  /\ apply_calls[k].weights = {"H_1"}

C4_Witness ==
    /\ pc = "metrics"
    /\ Decoupled
    /\ current_routing = "RANDOM_ROUTING"
    /\ Len(apply_calls) = 1
    /\ CallsNaming("H_0") = 0

\* C5: the information-gain loss is evaluated in a step exactly when
\* USE_ROUTING holds and the step's strategy is INFORMATION_GAIN_ROUTING;
\* otherwise both routing losses are 0 and the total is the classification
\* loss.
C5_InformationGainOnlyWhenSelected ==
    LossesComputed =>
      /\ (ig_calls > 0) <=> StrategyIsInformationGain
      /\ ~StrategyIsInformationGain =>
            /\ routing_0_loss = 0
            /\ routing_1_loss = 0
            /\ loss_value = classification_loss

C5_Witness ==
    /\ pc = "dispatch"
    /\ config.USE_ROUTING
    /\ current_routing = "RANDOM_ROUTING"
    /\ classification_loss = 1
    /\ loss_value = 1

\* C6: an unimplemented MODEL value ends the run with a configuration error
\* raised at model selection, before the optimizer is built.
C6_UnimplementedModelRaises ==
    (config.MODEL \notin ImplementedModels /\ pc # "select_model") =>
        /\ pc = "aborted"
        /\ error = "NotImplementedError"
        /\ ~optimizer

\* C7: a failing call to the metrics collaborator is caught and never ends
\* the run.
C7_LoggingFailureCaught ==
    ~(pc = "aborted" /\ error = "WandbError")

\* C8: a step whose loss is non-finite is aborted: no gradient is applied for
\* it, global_step does not advance past it and no later batch is processed.
C8_NonFiniteLossAborts ==
    loss_value = NaN =>
        /\ apply_calls = <<>>
        /\ global_step = BatchesTaken - 1
        /\ pc \in {"dispatch", "aborted"}

\* C9: in every evaluation pass the routing accumulators are reset before
\* the first batch, and the routing-ratio report is built from them only
\* after the last batch of the pass, never after a part of it.
C9_ReportAfterWholePass ==
    /\ (pc \in {"val_head", "test_head"} /\ eval_iter = 0) =>
          (metrics["Route0"] = 0 /\ metrics["Route1"] = 0)
    /\ (result_log.tables /\ result_log.kind = "Validation") =>
          (result_log.route0 = dataset_validation
           /\ result_log.route1 = dataset_validation)
    /\ (result_log.tables /\ result_log.kind = "Test") =>
          (result_log.route0 = dataset_test
           /\ result_log.route1 = dataset_test)

\* Epochs whose validation trigger (line 208) has been evaluated.
EpochsChecked ==
    IF pc \in {"train_head", "dispatch", "metrics", "log"}
    THEN epoch ELSE epoch + 1

\* C10: a validation pass runs after the batches of epoch e exactly when e+1
\* is a multiple of 10 or equals NUM_EPOCHS, never inside an epoch; exactly
\* one test pass runs, after the last epoch and its validation pass.
C10_EvaluationSchedule ==
    /\ pc # "aborted" =>
          val_passes = Cardinality({e \in 0..(EpochsChecked - 1) :
                           (e + 1) % 10 = 0 \/ e + 1 = config.NUM_EPOCHS})
    /\ pc \in {"val_head", "val_log"} => train_iter = dataset_train
    /\ test_passes <= 1
    /\ pc \in {"test_head", "test_log", "done"} =>
          /\ test_passes = 1
          /\ epoch = config.NUM_EPOCHS - 1
          /\ config.NUM_EPOCHS > 0 => train_iter = dataset_train
    /\ test_passes = 1 => pc \in {"test_head", "test_log", "done", "aborted"}

C10_Witness ==
    /\ pc = "done"
    /\ config.NUM_EPOCHS = 11
    /\ val_passes = 2
    /\ test_passes = 1

====
